---- MODULE Spec2Model ----
(***************************************************************************)
(* Palm detection decoding pipeline of src/main.rs (MyApp::get_palm):      *)
(* anchor grid, detection decoding, greedy suppression, mapping to image   *)
(* space.                                                                  *)
(*                                                                         *)
(* Numbers.  The program computes in f32.  The model draws every input     *)
(* from small integers (box sizes even, image sizes multiples of 192), so  *)
(* every sum, product and halving below is exact in f32 and is modelled by *)
(* the same integer operation.  The one quotient that is not exact, the    *)
(* IoU, is kept as the pair (numerator, denominator) and compared the way  *)
(* IEEE-754 compares the quotient: x/0 is NaN or an infinity, and every    *)
(* ordered comparison with NaN is false.                                   *)
(*                                                                         *)
(* Rows.  The tensors have NumAnchors rows; the model carries the first    *)
(* MaxRows of them (rows 0..MaxRows-1, paired with anchors 0..MaxRows-1).  *)
(* Rust indices start at 0, TLA+ sequences at 1: row i is element i+1.     *)
(***************************************************************************)
EXTENDS Integers, Sequences, FiniteSets, TLC

VARIABLES pc, fault, img, score_threshold, iou_threshold, run_outputs, outputs,
          anchors, regressors, scores, box_coords, palms, res, palm, result,
          n, anchor_row

vars == <<pc, fault, img, score_threshold, iou_threshold, run_outputs, outputs,
          anchors, regressors, scores, box_coords, palms, res, palm, result,
          n, anchor_row>>

pipeVars == <<pc, fault, img, score_threshold, iou_threshold, run_outputs, outputs,
              anchors, regressors, scores, box_coords, palms, res, palm, result>>

gridVars == <<n, anchor_row>>

(***************************************************************************)
(* Bounds of the model                                                     *)
(***************************************************************************)
MaxRows == 3

\* the cap on the accepted list: one more than the rows, so that a row
\* accepted twice is visible before the cap stops the loop
MaxRes == MaxRows + 1

(***************************************************************************)
(* Program constants                                                       *)
(***************************************************************************)
NumAnchors == 2016
RegWidth == 18
ModelSize == 192
NumTips == 7

(***************************************************************************)
(* f32 helpers                                                             *)
(***************************************************************************)
fmin(a, b) == IF a < b THEN a ELSE b
fmax(a, b) == IF a > b THEN a ELSE b

\* a / b, unevaluated
fdiv(a, b) == [num |-> a, den |-> b]

\* q < t for a quotient q and a threshold t = <<tn, td>>, td > 0
flt(q, t) ==
    IF q.den = 0 THEN FALSE
    ELSE IF q.den > 0 THEN q.num * t[2] < t[1] * q.den
    ELSE q.num * t[2] > t[1] * q.den

(***************************************************************************)
(* BBox                                                                    *)
(***************************************************************************)
to_xyxy(b) == <<b.x, b.y, b.x + b.w, b.y + b.h>>

intersection(a, other) ==
    LET p == to_xyxy(a)
        q == to_xyxy(other)
        w == fmin(p[3], q[3]) - fmax(p[1], q[1])
        h == fmin(p[4], q[4]) - fmax(p[2], q[2])
    IN IF w < 0 \/ h < 0 THEN 0 ELSE w * h

area(b) == b.w * b.h

union(a, other) == area(a) + area(other) - intersection(a, other)

iou(a, other) == fdiv(intersection(a, other), union(a, other))

BBox_shift(b, x, y) == [x |-> b.x + x, y |-> b.y + y, w |-> b.w, h |-> b.h]

BBox_scale(b, scale_x, scale_y) ==
    [x |-> b.x * scale_x, y |-> b.y * scale_y,
     w |-> b.w * scale_x, h |-> b.h * scale_y]

(***************************************************************************)
(* Palm.  The field row is a ghost: the tensor row the palm was decoded    *)
(* from.  The program does not store it.                                   *)
(***************************************************************************)
Palm_shift(p, x, y) ==
    [p EXCEPT !.bbox = BBox_shift(p.bbox, x, y),
              !.tips = [t \in 1..NumTips |-> <<p.tips[t][1] + x, p.tips[t][2] + y>>]]

Palm_scale(p, scale_x, scale_y) ==
    [p EXCEPT !.bbox = BBox_scale(p.bbox, scale_x, scale_y),
              !.tips = [t \in 1..NumTips |->
                           <<p.tips[t][1] * scale_x, p.tips[t][2] * scale_y>>]]

(***************************************************************************)
(* Anchor grid: get_grid_box_coords and its nested add_grid                *)
(***************************************************************************)
\* vec![0.0; 2016 * 4]
ZeroOffsets == [k \in 1..(NumAnchors * 4) |-> 0]

\* the arguments of the two add_grid calls: <<rows, repeats, cell_width>>
GridParams(c) == IF c = 1 THEN <<24, 2, 8>> ELSE <<12, 6, 16>>

\* cell_width as f32 * (c as f32 - (rows - 1) as f32 * 0.5); the product is
\* an integer because cell_width is even
GridCoord(cell_width, c, rows) == (cell_width * (2 * c - (rows - 1))) \div 2

\* offsets[i] = v on a slice: an index past the end is a panic (overrun)
StoreAt(st, v) ==
    IF st.overrun \/ st.n >= Len(st.offsets)
    THEN [st EXCEPT !.overrun = TRUE]
    ELSE [st EXCEPT !.offsets[st.n + 1] = v]

\* add_grid with the row and the column of the cell exchanged
AddGridIterationSwapped(st, rows, repeats, cell_width, jj) ==
    LET s1 == StoreAt(st, GridCoord(cell_width, (jj \div repeats) \div rows, rows))
        s2 == [s1 EXCEPT !.n = @ + 1]
        s3 == StoreAt(s2, GridCoord(cell_width, (jj \div repeats) % rows, rows))
    IN [s3 EXCEPT !.n = @ + 3]

\* one iteration of the for loop of add_grid; st = [offsets, n, overrun]
AddGridIteration(st, rows, repeats, cell_width, jj) ==
    LET s1 == StoreAt(st, GridCoord(cell_width, (jj \div repeats) % rows, rows))
        s2 == [s1 EXCEPT !.n = @ + 1]
        s3 == StoreAt(s2, GridCoord(cell_width, (jj \div repeats) \div rows, rows))
    IN [s3 EXCEPT !.n = @ + 3]

\* the iterations lo..hi-1 of the for loop, in order.  The range is split in
\* two halves run one after the other, which keeps the evaluation shallow.
RECURSIVE AddGridRange(_, _, _, _, _, _)
AddGridRange(st, rows, repeats, cell_width, lo, hi) ==
    IF lo >= hi THEN st
    ELSE IF hi = lo + 1 THEN AddGridIteration(st, rows, repeats, cell_width, lo)
    ELSE LET mid == (lo + hi) \div 2
             half == AddGridRange(st, rows, repeats, cell_width, lo, mid)
         IN IF half.n < 0 THEN half
            ELSE AddGridRange(half, rows, repeats, cell_width, mid, hi)

add_grid(st, rows, repeats, cell_width) ==
    AddGridRange(st, rows, repeats, cell_width, 0, repeats * rows * rows)

get_grid_box_coords ==
    LET s0 == [offsets |-> ZeroOffsets, n |-> 0, overrun |-> FALSE]
        p1 == GridParams(1)
        p2 == GridParams(2)
        s1 == add_grid(s0, p1[1], p1[2], p1[3])
    IN IF s1.n < 0 THEN s1 ELSE add_grid(s1, p2[1], p2[2], p2[3])

\* row i (0-based) of Array2::from_shape_vec((offsets.len() / 4, 4), offsets)
AnchorRow(offs, i) == [c \in 1..4 |-> offs[4 * i + c]]

\* the rows 0..MaxRows-1 of that array
AnchorRows(offs) == [i \in 1..MaxRows |-> AnchorRow(offs, i - 1)]

(***************************************************************************)
(* Inputs of one call of get_palm                                          *)
(***************************************************************************)
\* (width, height) of the camera frame
ImageSizes == {<<192, 192>>, <<384, 576>>}

\* score_threshold; 4 is above every score the model draws
ScoreThresholds == {2, 4}

\* iou_threshold as <<numerator, denominator>>
IouThresholds == {<<1, 4>>, <<1, 2>>}

Scores == {1, 2, 3}

\* regression columns 0..3 of a row: centre offset x, y and size w, h
RegBoxes == {<<0, 0, 4, 4>>, <<2, 0, 4, 4>>, <<0, 0, 0, 0>>, <<0, 0, -2, 4>>}

\* a regression row: the box columns, then the 14 landmark columns
RegRow(b) == b \o [k \in 1..(RegWidth - 4) |-> 0]

RegShape == <<1, NumAnchors, RegWidth>>
ScoreShape == <<1, NumAnchors, 1>>

\* a tensor is its shape and its content in row-major order, cut into rows
RegTensors == {[shape |-> RegShape, rows |-> r] :
                  r \in [1..MaxRows -> {RegRow(b) : b \in RegBoxes}]}
ScoreTensors == {[shape |-> ScoreShape, rows |-> r] :
                  r \in [1..MaxRows -> {<<s>> : s \in Scores}]}

GoodOutputs == {<<r, s>> : r \in RegTensors, s \in ScoreTensors}

\* inference results that deviate from the contract, or meet it only after
\* a reshape
OddOutputs ==
    LET r == [shape |-> RegShape, rows |-> [i \in 1..MaxRows |-> RegRow(<<0, 0, 4, 4>>)]]
        s == [shape |-> ScoreShape, rows |-> [i \in 1..MaxRows |-> <<2>>]]
    IN { <<r>>, <<r, s, s>>, <<>>, <<s, r>>,
         <<[r EXCEPT !.shape = <<1, NumAnchors, RegWidth - 1>>], s>>,
         <<r, [s EXCEPT !.shape = <<1, NumAnchors, 2>>]>>,
         <<[r EXCEPT !.shape = <<NumAnchors, RegWidth>>], [s EXCEPT !.shape = <<NumAnchors>>]>> }

(***************************************************************************)
(* ndarray and Vec helpers                                                 *)
(***************************************************************************)
RECURSIVE NumElems(_)
NumElems(shape) == IF shape = <<>> THEN 1 ELSE Head(shape) * NumElems(Tail(shape))

\* into_shape that compares the number of dimensions only
into_shape_ok_rank(t, target) == Len(t.shape) = Len(target)

\* into_shape(target) is Ok exactly when the element counts agree
into_shape_ok(t, target) == NumElems(t.shape) = NumElems(target)

\* Vec::swap_remove(i): <<removed element, remaining vector>>
swap_remove(v, i) ==
    <<v[i + 1],
      [k \in 1..(Len(v) - 1) |-> IF k = i + 1 THEN v[Len(v)] ELSE v[k]]>>

\* insertion before the elements of equal score: an unstable sort
RECURSIVE InsertSortedBeforeEquals(_, _)
InsertSortedBeforeEquals(s, p) ==
    IF s = <<>> THEN <<p>>
    ELSE IF Head(s).score <= p.score THEN <<p>> \o s
    ELSE <<Head(s)>> \o InsertSortedBeforeEquals(Tail(s), p)

\* insertion of p into a list sorted by descending score, after its equals
RECURSIVE InsertSorted(_, _)
InsertSorted(s, p) ==
    IF s = <<>> THEN <<p>>
    ELSE IF Head(s).score < p.score THEN <<p>> \o s
    ELSE <<Head(s)>> \o InsertSorted(Tail(s), p)

\* palms.sort_by(|p1, p2| p2.score.total_cmp(&p1.score)): stable, descending
RECURSIVE sort_by(_)
sort_by(s) ==
    IF s = <<>> THEN <<>>
    ELSE InsertSorted(sort_by(SubSeq(s, 1, Len(s) - 1)), s[Len(s)])

\* a loop that drops the accepted head and suppresses nothing
retain_head_only(ps, p, thr) == Tail(ps)

\* palms.retain(|p2| p2.bbox.iou(palm.bbox) < iou_threshold)
retain(ps, p, thr) == SelectSeq(ps, LAMBDA p2 : flt(iou(p2.bbox, p.bbox), thr))

\* the test that ends the loop, inverted
below_threshold_inverted(p, thr) == p.score >= thr

\* palm.score < score_threshold, the test that ends the loop (line 253)
below_threshold(p, thr) == p.score < thr

\* the Palm of row i (0-based) built at lines 228-246
DecodePalm(regs, bc, sc, i) ==
    [bbox |-> [x |-> bc[i + 1][1] - bc[i + 1][3] \div 2,
               y |-> bc[i + 1][2] - bc[i + 1][4] \div 2,
               w |-> bc[i + 1][3],
               h |-> bc[i + 1][4]],
     tips |-> [t \in 1..NumTips |->
                 <<regs[i + 1][4 + (t - 1) * 2 + 1] + bc[i + 1][1],
                   regs[i + 1][4 + (t - 1) * 2 + 2] + bc[i + 1][2]>>],
     score |-> sc[i + 1][1],
     row |-> i]

\* palm.shift(192.0 / 2.0, 192.0 / 2.0).scale(scale_x, scale_y)
to_image(p, scale_x, scale_y) ==
    Palm_scale(Palm_shift(p, ModelSize \div 2, ModelSize \div 2), scale_x, scale_y)

NoPalm == [row |-> -1]

(***************************************************************************)
(* State after construction: no frame is being processed                   *)
(***************************************************************************)
PipeIdle ==
    /\ pc = "idle"
    /\ fault = "none"
    /\ img = <<0, 0>>
    /\ score_threshold = 0
    /\ iou_threshold = <<0, 1>>
    /\ run_outputs = <<>>
    /\ outputs = <<>>
    /\ anchors = <<>>
    /\ regressors = <<>>
    /\ scores = <<>>
    /\ box_coords = <<>>
    /\ palms = <<>>
    /\ res = <<>>
    /\ palm = NoPalm
    /\ result = <<>>

Init ==
    /\ PipeIdle
    /\ n = 0
    /\ anchor_row = 0

(***************************************************************************)
(* get_palm, one action per step                                           *)
(***************************************************************************)
\* lines 164-186: the call, the inference and the assertion on its outputs
Infer ==
    /\ pc = "idle"
    /\ \E im \in ImageSizes, st \in ScoreThresholds, it \in IouThresholds,
          outs \in GoodOutputs \cup OddOutputs :
          /\ img' = im
          /\ score_threshold' = st
          /\ iou_threshold' = it
          /\ run_outputs' = outs
          /\ outputs' = outs
          /\ IF Len(outs) = 2
             THEN pc' = "grid" /\ fault' = fault
             ELSE pc' = "panic" /\ fault' = "assert_eq"
    /\ UNCHANGED <<anchors, regressors, scores, box_coords, palms, res, palm, result>>
    /\ UNCHANGED gridVars

\* lines 212-213: the anchor grid
BuildGrid ==
    /\ pc = "grid"
    /\ LET g == get_grid_box_coords
       IN IF g.overrun
          THEN pc' = "panic" /\ fault' = "index_offsets" /\ anchors' = anchors
          ELSE pc' = "reshape" /\ fault' = fault /\ anchors' = AnchorRows(g.offsets)
    /\ UNCHANGED <<img, score_threshold, iou_threshold, run_outputs, outputs, regressors, scores,
                   box_coords, palms, res, palm, result>>
    /\ UNCHANGED gridVars

\* lines 215-216: the two outputs are taken in order and reshaped
Reshape ==
    /\ pc = "reshape"
    /\ LET r == swap_remove(outputs, 0)
           s == swap_remove(r[2], 0)
       IN IF ~into_shape_ok(r[1], RegShape)
          THEN /\ pc' = "panic" /\ fault' = "shape"
               /\ outputs' = r[2]
               /\ UNCHANGED <<regressors, scores>>
          ELSE IF ~into_shape_ok(s[1], ScoreShape)
          THEN /\ pc' = "panic" /\ fault' = "shape"
               /\ outputs' = s[2]
               /\ regressors' = r[1].rows
               /\ scores' = scores
          ELSE /\ pc' = "decode" /\ fault' = fault
               /\ outputs' = s[2]
               /\ regressors' = r[1].rows
               /\ scores' = s[1].rows
    /\ UNCHANGED <<img, score_threshold, iou_threshold, run_outputs, anchors,
                   box_coords, palms, res, palm, result>>
    /\ UNCHANGED gridVars

\* lines 217-247: box columns plus anchors, then one Palm per row
Decode ==
    /\ pc = "decode"
    /\ LET bc == [i \in 1..MaxRows |-> [c \in 1..4 |-> regressors[i][c] + anchors[i][c]]]
       IN /\ box_coords' = bc
          /\ palms' = [i \in 1..MaxRows |-> DecodePalm(regressors, bc, scores, i - 1)]
    /\ pc' = "sort"
    /\ UNCHANGED <<fault, img, score_threshold, iou_threshold, run_outputs, outputs, anchors,
                   regressors, scores, res, palm, result>>
    /\ UNCHANGED gridVars

\* lines 249-250
Sort ==
    /\ pc = "sort"
    /\ palms' = sort_by(palms)
    /\ res' = <<>>
    /\ pc' = "loop"
    /\ UNCHANGED <<fault, img, score_threshold, iou_threshold, run_outputs, outputs, anchors,
                   regressors, scores, box_coords, palm, result>>
    /\ UNCHANGED gridVars

\* lines 252-255: the head of the list, and the test that ends the loop
LoopHead ==
    /\ pc = "loop"
    /\ IF palms = <<>>
       THEN pc' = "panic" /\ fault' = "index_palms" /\ palm' = palm
       ELSE /\ palm' = palms[1]
            /\ fault' = fault
            /\ pc' = IF below_threshold(palms[1], score_threshold)
                     THEN "return" ELSE "accept"
    /\ UNCHANGED <<img, score_threshold, iou_threshold, run_outputs, outputs, anchors, regressors,
                   scores, box_coords, palms, res, result>>
    /\ UNCHANGED gridVars

\* lines 256-257; the model stops a run whose list reached MaxRes
Accept ==
    /\ pc = "accept"
    /\ Len(res) < MaxRes
    /\ res' = Append(res, palm)
    /\ palms' = retain(palms, palm, iou_threshold)
    /\ pc' = "loop"
    /\ UNCHANGED <<fault, img, score_threshold, iou_threshold, run_outputs, outputs, anchors,
                   regressors, scores, box_coords, palm, result>>
    /\ UNCHANGED gridVars

\* lines 224-225 and 260-262
Return ==
    /\ pc = "return"
    /\ LET scale_x == img[1] \div ModelSize
           scale_y == img[2] \div ModelSize
       IN result' = [k \in 1..Len(res) |-> to_image(res[k], scale_x, scale_y)]
    /\ pc' = "done"
    /\ UNCHANGED <<fault, img, score_threshold, iou_threshold, run_outputs, outputs, anchors,
                   regressors, scores, box_coords, palms, res, palm>>
    /\ UNCHANGED gridVars

Next ==
    \/ Infer
    \/ BuildGrid
    \/ Reshape
    \/ Decode
    \/ Sort
    \/ LoopHead
    \/ Accept
    \/ Return

Spec == Init /\ [][Next]_vars

(***************************************************************************)
(* The anchor grid on its own: get_grid_box_coords is run as at lines      *)
(* 212-213 and one row of the anchor array, anchor_row, is read            *)
(***************************************************************************)
GridInit ==
    /\ PipeIdle
    /\ n = 0
    /\ anchor_row \in 0..(NumAnchors - 1)

\* lines 212-213: n is the write position the two add_grid calls end with,
\* anchors the one row anchor_row of the array
GridBuild ==
    /\ pc = "idle"
    /\ LET g == get_grid_box_coords
       IN /\ n' = g.n
          /\ IF g.overrun \/ Len(g.offsets) % 4 # 0
             THEN pc' = "panic" /\ fault' = "index_offsets" /\ anchors' = anchors
             ELSE pc' = "grid_built" /\ fault' = fault
                  /\ anchors' = <<AnchorRow(g.offsets, anchor_row)>>
    /\ anchor_row' = anchor_row
    /\ UNCHANGED <<img, score_threshold, iou_threshold, run_outputs, outputs, regressors,
                   scores, box_coords, palms, res, palm, result>>

GridNext == GridBuild

GridSpec == GridInit /\ [][GridNext]_vars

(***************************************************************************)
(* Properties                                                              *)
(***************************************************************************)
\* the candidates in tensor row order, once decoded
Decoded == box_coords # <<>>
Candidate(i) == DecodePalm(regressors, box_coords, scores, i)
RowIds == 0..(MaxRows - 1)
Accepted(i) == \E k \in 1..Len(res) : res[k].row = i

\* every decoded box has sizes >= 0 (the invariant of section 3 of the
\* specification), resp. a positive area
NonNegativeSizes ==
    \A i \in RowIds : Candidate(i).bbox.w >= 0 /\ Candidate(i).bbox.h >= 0
PositiveSizes ==
    \A i \in RowIds : Candidate(i).bbox.w > 0 /\ Candidate(i).bbox.h > 0

\* q >= t on a quotient, as IEEE-754 has it: false on NaN (0/0), and num/0
\* with num > 0 is +infinity
fge(q, t) ==
    IF q.den = 0 THEN q.num > 0
    ELSE IF q.den > 0 THEN q.num * t[2] >= t[1] * q.den
    ELSE q.num * t[2] <= t[1] * q.den

\* q = 0 (either sign of zero), false on NaN
fzero(q) == q.den # 0 /\ q.num = 0

\* C1: the accepted list never holds, at two different positions, two
\* detections whose model-space boxes have IoU >= iou_threshold.
C1_NoOverlappingPair ==
    \A a, b \in 1..Len(res) :
        a # b => ~fge(iou(res[a].bbox, res[b].bbox), iou_threshold)

\* two detections were returned whose boxes overlap, with an IoU that is
\* positive and below iou_threshold
C1_Witness ==
    /\ pc = "done"
    /\ Len(result) = 2
    /\ intersection(res[1].bbox, res[2].bbox) > 0
    /\ flt(iou(res[1].bbox, res[2].bbox), iou_threshold)

\* C2: the returned list is ordered by non-increasing score, and returned
\* detections of equal score are in the order of their tensor rows.
C2_SortedStable ==
    pc = "done" =>
        \A a, b \in 1..Len(result) :
            a < b => /\ result[a].score >= result[b].score
                     /\ result[a].score = result[b].score
                           => result[a].row < result[b].row

\* two detections of different score were returned, the better one from the
\* later row
C2_Witness ==
    /\ pc = "done"
    /\ Len(result) = 2
    /\ result[1].score > result[2].score
    /\ result[1].row > result[2].row

\* the IoU as section 4.3 of the specification defines it: 0 when the union is 0
spec_iou(a, other) ==
    IF union(a, other) = 0 THEN fdiv(0, 1) ELSE iou(a, other)

\* C3: a candidate at or above the score threshold whose IoU (0 when the
\* union is 0) with every accepted detection is below iou_threshold is in
\* the returned list.  Stated for boxes of sizes >= 0.
C3_KeepsNonDuplicates ==
    (pc = "done" /\ NonNegativeSizes) =>
        \A i \in RowIds :
            ( /\ Candidate(i).score >= score_threshold
              /\ \A k \in 1..Len(res) :
                    flt(spec_iou(Candidate(i).bbox, res[k].bbox), iou_threshold) )
            => Accepted(i)

\* C4: two boxes of sizes >= 0 whose union area is 0 have IoU 0, a value
\* below every positive iou_threshold, so neither suppresses the other.
C4_ZeroUnionIsZero ==
    Decoded =>
        \A a, b \in RowIds :
            LET p == Candidate(a).bbox
                q == Candidate(b).bbox
            IN ( /\ a # b
                 /\ p.w >= 0 /\ p.h >= 0 /\ q.w >= 0 /\ q.h >= 0
                 /\ union(p, q) = 0 )
               => /\ fzero(iou(p, q))
                  /\ flt(iou(p, q), iou_threshold)

\* row i is the only row at or above the score threshold
SingleRow(i) ==
    /\ scores # <<>>
    /\ scores[i + 1][1] >= score_threshold
    /\ \A k \in RowIds \ {i} : scores[k + 1][1] < score_threshold

\* C5: when one row i alone reaches the score threshold, the call does not
\* fault, accepts one detection, and returns exactly the detection of row i:
\* centre ((anchor_i.dx + reg[i,0] + 96) * scale_x, (anchor_i.dy + reg[i,1] + 96)
\* * scale_y), size (reg[i,2] * scale_x, reg[i,3] * scale_y), score scores[i].
\* Stated for regressed sizes >= 0, zero included.
C5_SingleDetection ==
    \A i \in RowIds :
        (SingleRow(i) /\ Decoded /\ NonNegativeSizes) =>
            /\ pc # "panic"
            /\ Len(res) <= 1
            /\ pc = "done" =>
                  /\ Len(result) = 1
                  /\ LET d == result[1]
                         sx == img[1] \div 192
                         sy == img[2] \div 192
                     IN /\ 2 * d.bbox.x + d.bbox.w
                             = 2 * ((anchors[i + 1][1] + regressors[i + 1][1] + 96) * sx)
                        /\ 2 * d.bbox.y + d.bbox.h
                             = 2 * ((anchors[i + 1][2] + regressors[i + 1][2] + 96) * sy)
                        /\ d.bbox.w = regressors[i + 1][3] * sx
                        /\ d.bbox.h = regressors[i + 1][4] * sy
                        /\ d.score = scores[i + 1][1]

\* every decoded row is below the score threshold
AllBelow ==
    /\ scores # <<>>
    /\ \A i \in RowIds : scores[i + 1][1] < score_threshold

\* C6: when every score is below score_threshold the call does not fault,
\* accepts nothing and returns the empty list; and no accepted or returned
\* detection has a score below score_threshold.
C6_EmptyIsNormal ==
    /\ AllBelow => /\ pc # "panic"
                   /\ pc # "accept"
                   /\ res = <<>>
                   /\ result = <<>>
    /\ \A k \in 1..Len(res) : res[k].score >= score_threshold
    /\ \A k \in 1..Len(result) : result[k].score >= score_threshold

\* the empty list was returned for a frame with no score at the threshold
C6_Witness ==
    /\ pc = "done"
    /\ AllBelow
    /\ result = <<>>

\* the inference result deviates from the contract of section 6: not two
\* tensors, or the first without 1*2016*18 elements, or the second without
\* 1*2016*1 elements (which is also the case of the two tensors swapped)
ContractViolated(o) ==
    \/ Len(o) # 2
    \/ NumElems(o[1].shape) # 36288
    \/ NumElems(o[2].shape) # 2016

\* C7: for an inference result that violates the contract, nothing is ever
\* decoded and no list is returned; the call ends in a panic.
C7_FailFast ==
    (pc # "idle" /\ ContractViolated(run_outputs)) =>
        /\ pc \in {"grid", "reshape", "panic"}
        /\ pc = "panic" => fault \in {"assert_eq", "shape"}
        /\ ~Decoded
        /\ palms = <<>>
        /\ result = <<>>

\* two tensors were delivered in swapped order and the reshape panicked
C7_Witness ==
    /\ pc = "panic"
    /\ fault = "shape"
    /\ Len(run_outputs) = 2
    /\ run_outputs[1].shape = <<1, 2016, 1>>
    /\ run_outputs[2].shape = <<1, 2016, 18>>

\* anchor k as the specification gives it
SpecAnchorX(k) ==
    IF k < 1152 THEN 8 * ((k \div 2) % 24) - 92
    ELSE 16 * (((k - 1152) \div 6) % 12) - 88
SpecAnchorY(k) ==
    IF k < 1152 THEN 8 * ((k \div 2) \div 24) - 92
    ELSE 16 * (((k - 1152) \div 6) \div 12) - 88

\* C8: the two add_grid calls end with n at the length 2016*4 of the buffer,
\* without overrun, and every row 0..2015 of the anchor array is the anchor
\* of the two sub-grid formulas, with zero 3rd and 4th components.
C8_AnchorGrid ==
    /\ pc # "panic"
    /\ anchor_row \in 0..2015
    /\ pc = "grid_built" =>
          /\ n = 2016 * 4
          /\ Len(anchors) = 1
          /\ anchors[1] = <<SpecAnchorX(anchor_row), SpecAnchorY(anchor_row), 0, 0>>

\* the last anchor of the second sub-grid was read
C8_Witness ==
    /\ pc = "grid_built"
    /\ anchor_row = 2015
    /\ anchors[1] = <<88, 88, 0, 0>>

\* C9: the loop ends normally once no candidate remains; the head of an empty
\* candidate list is never read.  Stated for boxes of positive area, whose
\* IoU is always a number.
C9_EndsOnEmpty ==
    (Decoded /\ PositiveSizes) => ~(pc = "panic" /\ fault = "index_palms")

\* C10: an accepted candidate is removed by its own IoU filter, so no tensor
\* row is accepted twice and the accepted list is no longer than the rows.
C10_NoRowTwice ==
    /\ Len(res) <= MaxRows
    /\ \A a, b \in 1..Len(res) : a # b => res[a].row # res[b].row

====
